---- MODULE Spec2Model ----
(***************************************************************************)
(* A model of src/vulkan/util/gen_enum_to_str.py: the registry resolution  *)
(* engine (VkEnum.add_value and its callers), the sentinel-name            *)
(* derivation, parse_xml's accumulation into the factories and main's      *)
(* rendering of the three output files.                                    *)
(*                                                                         *)
(* Conventions.  Python's None for an optional argument is the empty       *)
(* tuple and a present value x is <<x>>.  An XML element is a record whose *)
(* fields are exactly the attributes the element carries, so that          *)
(* `'value' in elem.attrib` is `"value" \in DOMAIN elem`; a numeric        *)
(* attribute holds the integer that int(..., base=0) reads from it.  A     *)
(* Python dict whose iteration order the program observes (name_to_value)  *)
(* is a sequence of <<key, value>> pairs in insertion order; the other     *)
(* dicts are functions with a finite domain.                               *)
(***************************************************************************)
EXTENDS Integers, Sequences, FiniteSets, TLC

VARIABLES
    enum_factory,   \* NamedFactory(VkEnum).registry: name -> VkEnum
    pc,             \* where main is: "load", "failed", ...
    last,           \* the input element the last step consumed
    nelems,         \* how many input elements have been consumed
    input,          \* a declaration list or document fixed in advance, if any
    ident,          \* an enumeration identifier, as a sequence of characters
    max_enum_name,  \* VkEnum.max_enum_name of ident once computed, else None
    bitmask_factory,    \* NamedFactory(VkEnum).registry of the bitmasks
    ext_factory,        \* NamedFactory(VkExtension).registry
    struct_factory,     \* NamedFactory(VkChainStruct).registry
    obj_type_factory,   \* NamedFactory(VkObjectType).registry
    platform_define,    \* parse_xml's platform_define of the current document
    cur_ext,            \* parse_xml's extension and define inside the extension loop
    files,              \* the three output files, in the order main writes them
    once                \* history, kept in the runs over a document fixed in
                        \* advance: the resolved model the previous load left

nameVars == <<ident, max_enum_name>>
mainVars == <<bitmask_factory, ext_factory, struct_factory, obj_type_factory,
              platform_define, cur_ext, files>>
vars == <<enum_factory, pc, last, nelems, input, nameVars, once, mainVars>>

----------------------------------------------------------------------------
(* Bounds of the model.                                                    *)

\* the number of declarations made on the one enumeration of SpecEnum
MaxElems == 4
\* the longest alias chain of SpecChain
MaxChain == 4
\* the longest identifier of SpecName drawn from IdentChars
MaxIdent == 4
\* the number of document elements one run of SpecGuard parses
MaxGuardElems == 6
\* the number of document elements one run of SpecMain parses
MaxMainElems == 4
\* the number of constants a document of SpecTwice declares in VkE
MaxDocEnums == 3
\* the number of document elements one run of SpecFactory parses
MaxFactoryElems == 5

----------------------------------------------------------------------------
(* Optional values and dicts.                                              *)

NoneV == <<>>
Some(x) == <<x>>
The(o) == o[1]

NoError == "ok"

EmptyMap == [x \in {} |-> 0]
MapSet(f, k, v) == [x \in (DOMAIN f) \cup {k} |-> IF x = k THEN v ELSE f[x]]
MapDel(f, k) == [x \in (DOMAIN f) \ {k} |-> f[x]]
MapRange(f) == {f[x] : x \in DOMAIN f}

DictKeys(d) == {d[i][1] : i \in 1..Len(d)}
DictValues(d) == {d[i][2] : i \in 1..Len(d)}
DictGet(d, k) == LET i == CHOOSE j \in 1..Len(d) : d[j][1] = k IN d[i][2]
DictIndex(d, k) == CHOOSE j \in 1..Len(d) : d[j][1] = k
DictSet(d, k, v) ==
    IF k \in DictKeys(d)
    THEN [i \in 1..Len(d) |-> IF d[i][1] = k THEN <<k, v>> ELSE d[i]]
    ELSE Append(d, <<k, v>>)

----------------------------------------------------------------------------
(* class VkEnum                                                            *)

\* VkEnum.__init__
VkEnum(name, bitwidth) ==
    [name |-> name,
     bitwidth |-> bitwidth,
     extension |-> "None",
     values |-> EmptyMap,
     name_to_value |-> <<>>,
     guard |-> "None",
     name_to_alias_list |-> EmptyMap]

\* the offset formula of add_value
ExtBase == 1000000000
ExtBlock == 1000

\* mutant: the extension number is not made zero-based
extension_value_one_based(extnum, offset, error) ==
    LET value == ExtBase + extnum * ExtBlock + offset
    IN IF error THEN -value ELSE value

extension_value(extnum, offset, error) ==
    LET value == ExtBase + (extnum - 1) * ExtBlock + offset
    IN IF error THEN -value ELSE value

\* mutant: a name as long as the canonical one replaces it
canonical_update_last_wins(values, name, value) ==
    IF value \notin DOMAIN values THEN MapSet(values, value, name)
    ELSE IF Len(values[value]) >= Len(name) THEN MapSet(values, value, name)
    ELSE values

\* the canonical-name update of add_value
canonical_update(values, name, value) ==
    IF value \notin DOMAIN values THEN MapSet(values, value, name)
    ELSE IF Len(values[value]) > Len(name) THEN MapSet(values, value, name)
    ELSE values

RECURSIVE add_value_resolved(_, _, _, _)
RECURSIVE flush_aliases(_, _, _, _, _)
RECURSIVE flush_aliases_shallow(_, _, _, _, _)

\* mutant: the value is recorded and the waiting aliases are left pending
add_value_resolved_no_flush(e, name, value, active) ==
    [enum |-> [e EXCEPT !.name_to_value = DictSet(@, name, value),
                        !.values = canonical_update(@, name, value)],
     err |-> NoError]

(* add_value from the point where `value` is known: record the value, then *)
(* resolve the aliases waiting for `name`.  `active` holds the names whose *)
(* flush loop is running further up the call stack.  A call that finds its *)
(* own name there with its pending list still in place repeats the same    *)
(* calls for ever: Python ends it with a RecursionError, raised with the   *)
(* values of the names visited already recorded and no pending list        *)
(* deleted.                                                                *)
add_value_resolved(e, name, value, active) ==
    LET e1 == [e EXCEPT !.name_to_value = DictSet(@, name, value),
                        !.values = canonical_update(@, name, value)]
    IN IF name \notin DOMAIN e1.name_to_alias_list
       THEN [enum |-> e1, err |-> NoError]
       ELSE IF name \in active
       THEN [enum |-> e1, err |-> "RecursionError"]
       ELSE LET r == flush_aliases(e1, e1.name_to_alias_list[name], 1, value,
                                   active \cup {name})
            IN IF r.err # NoError THEN r
               ELSE [enum |-> [r.enum EXCEPT !.name_to_alias_list = MapDel(@, name)],
                     err |-> NoError]

\* mutant: the waiting aliases get the value, and the aliases waiting for
\* them stay pending
flush_aliases_shallow(e, list, i, value, active) ==
    IF i > Len(list) THEN [enum |-> e, err |-> NoError]
    ELSE flush_aliases_shallow(add_value_resolved_no_flush(e, list[i], value, active).enum,
                               list, i + 1, value, active)

\* the loop `for alias in self.name_to_alias_list[name]`
flush_aliases(e, list, i, value, active) ==
    IF i > Len(list) THEN [enum |-> e, err |-> NoError]
    ELSE LET r == add_value_resolved(e, list[i], value, active)
         IN IF r.err # NoError THEN r
            ELSE flush_aliases(r.enum, list, i + 1, value, active)

\* the alias branch of add_value when the base has no value yet
add_pending_alias(e, name, alias) ==
    LET old == IF alias \in DOMAIN e.name_to_alias_list
               THEN e.name_to_alias_list[alias] ELSE <<>>
    IN [e EXCEPT !.name_to_alias_list = MapSet(@, alias, Append(old, name))]

\* VkEnum.add_value
add_value(e, name, value, extnum, offset, alias, error) ==
    IF alias # NoneV /\ (value # NoneV \/ offset # NoneV)
    THEN [enum |-> e, err |-> "AssertionError"]
    ELSE IF alias # NoneV /\ The(alias) \notin DictKeys(e.name_to_value)
    THEN [enum |-> add_pending_alias(e, name, The(alias)), err |-> NoError]
    ELSE LET v0 == IF alias # NoneV
                   THEN Some(DictGet(e.name_to_value, The(alias)))
                   ELSE value
         IN IF v0 = NoneV /\ extnum = NoneV
            THEN [enum |-> e, err |-> "AssertionError"]
            ELSE IF v0 = NoneV /\ offset = NoneV
            THEN [enum |-> e, err |-> "TypeError"]
            ELSE LET v == IF v0 # NoneV THEN The(v0)
                          ELSE extension_value(The(extnum), The(offset), error)
                 IN add_value_resolved(e, name, v, {})

\* VkEnum.add_value_from_xml; extension is NoneV or <<a VkExtension>>
add_value_from_xml(e, elem, extension) ==
    LET e0 == [e EXCEPT !.extension =
                   IF extension = NoneV THEN "None" ELSE The(extension).name]
    IN IF "value" \in DOMAIN elem
       THEN add_value(e0, elem.name, Some(elem.value), NoneV, NoneV, NoneV, FALSE)
       ELSE IF "bitpos" \in DOMAIN elem
       THEN add_value(e0, elem.name, Some(2 ^ elem.bitpos), NoneV, NoneV, NoneV, FALSE)
       ELSE IF "alias" \in DOMAIN elem
       THEN add_value(e0, elem.name, NoneV, NoneV, NoneV, Some(elem.alias), FALSE)
       ELSE LET error == "dir" \in DOMAIN elem /\ elem.dir = "-"
            IN IF "extnumber" \notin DOMAIN elem /\ extension = NoneV
               THEN [enum |-> e0, err |-> "AttributeError"]
               ELSE IF "offset" \notin DOMAIN elem
               THEN [enum |-> e0, err |-> "KeyError"]
               ELSE LET extnum == IF "extnumber" \in DOMAIN elem
                                  THEN elem.extnumber
                                  ELSE The(extension).number
                    IN add_value(e0, elem.name, NoneV, Some(extnum),
                                 Some(elem.offset), NoneV, error)

----------------------------------------------------------------------------
(* The other classes and the state main starts from.                       *)

\* mutant: the last registration of a name replaces the object
Factory_last_wins(registry, name, new) == MapSet(registry, name, new)

\* NamedFactory.__call__: the registered object, created when there is none
Factory(registry, name, new) ==
    IF name \in DOMAIN registry THEN registry ELSE MapSet(registry, name, new)

\* VkExtension.__init__
VkExtension(name, number, define) ==
    [name |-> name, number |-> number, define |-> define]

\* VkChainStruct.__init__
VkChainStruct(name, stype) ==
    [name |-> name, stype |-> stype, extension |-> "None"]

\* VkObjectType.__init__
VkObjectType(name) == [name |-> name, enum_to_name |-> EmptyMap]

\* an output file main has not opened
Absent == [state |-> "absent"]

\* the factories of main (all but enum_factory) and the untouched outputs
MainIdle ==
    /\ bitmask_factory = EmptyMap
    /\ ext_factory = EmptyMap
    /\ struct_factory = EmptyMap
    /\ obj_type_factory = EmptyMap
    /\ platform_define = EmptyMap
    /\ cur_ext = NoneV
    /\ files = <<Absent, Absent, Absent>>
    /\ once = NoneV

----------------------------------------------------------------------------
(* One enumeration under an arbitrary sequence of declarations.            *)

TheEnum == "VkE"
ConstNames == {"A", "BB", "CC"}

LiteralElems == {[name |-> n, value |-> v] : n \in ConstNames, v \in {1, 2}}
BitposElems == {[name |-> n, bitpos |-> b] : n \in ConstNames, b \in {1}}
AliasElems == {[name |-> n, alias |-> a] : n \in ConstNames, a \in ConstNames}
OffsetElems ==
    {[name |-> n, offset |-> 3] : n \in {"A"}}
    \cup {[name |-> n, offset |-> 3, dir |-> d] : n \in {"A"}, d \in {"-", "+"}}
    \cup {[name |-> n, offset |-> 3, extnumber |-> 5] : n \in {"A"}}
    \cup {[name |-> n, offset |-> 3, extnumber |-> 5, dir |-> "-"] : n \in {"A"}}
EnumElems == LiteralElems \cup BitposElems \cup AliasElems \cup OffsetElems

\* the extension an element is declared in: none, or extension number 2
DeclaringExtensions ==
    {NoneV, Some([name |-> "VK_EXT_x", number |-> 2, define |-> "None"])}

NoElem == [kind |-> "none"]

InitEnum ==
    /\ enum_factory = [n \in {TheEnum} |-> VkEnum(n, 32)]
    /\ pc = "load"
    /\ last = NoElem
    /\ nelems = 0
    /\ input = <<>>
    /\ ident = <<>> /\ max_enum_name = NoneV
    /\ MainIdle

\* one call enum.add_value_from_xml(elem, extension)
DeclareValue(elem, extension) ==
    /\ pc = "load"
    /\ nelems < MaxElems
    /\ LET r == add_value_from_xml(enum_factory[TheEnum], elem, extension)
       IN /\ enum_factory' = [enum_factory EXCEPT ![TheEnum] = r.enum]
          /\ pc' = IF r.err = NoError THEN "load" ELSE "failed"
    /\ last' = [kind |-> "enum", elem |-> elem, extension |-> extension]
    /\ nelems' = nelems + 1
    /\ UNCHANGED <<input, nameVars, once, mainVars>>

\* the enumeration's own constants are declared outside any extension
\* (parse_xml's first two loops), an extension's inside it
NextEnum ==
    \/ \E elem \in EnumElems : DeclareValue(elem, NoneV)
    \/ \E elem \in OffsetElems, extension \in DeclaringExtensions :
           DeclareValue(elem, extension)

SpecEnum == InitEnum /\ [][NextEnum]_vars

TheVkEnum == enum_factory[TheEnum]

(* C1: after every add_value call, for every value v that some declared    *)
(* name currently resolves to, the value-to-name map's entry for v is a    *)
(* name that currently resolves to v, no name resolving to v is shorter,   *)
(* and among the shortest names resolving to v it is the one registered    *)
(* first (the earliest key of name_to_value).                              *)
C1_CanonicalIsShortestEarliest ==
    pc = "load" =>
        \A v \in DictValues(TheVkEnum.name_to_value) :
            /\ v \in DOMAIN TheVkEnum.values
            /\ LET d == TheVkEnum.name_to_value
                   n == TheVkEnum.values[v]
               IN /\ n \in DictKeys(d)
                  /\ DictGet(d, n) = v
                  /\ \A m \in DictKeys(d) :
                        DictGet(d, m) = v =>
                            /\ Len(n) <= Len(m)
                            /\ Len(n) = Len(m) => DictIndex(d, n) <= DictIndex(d, m)

\* an element that add_value_from_xml reads as an extension-relative offset
IsOffsetDecl(x) ==
    /\ x.kind = "enum"
    /\ DOMAIN x.elem \cap {"value", "bitpos", "alias"} = {}
    /\ "offset" \in DOMAIN x.elem
    /\ "extnumber" \in DOMAIN x.elem \/ x.extension # NoneV

(* C5: a constant declared by extension-relative offset with extension     *)
(* number e and offset o resolves to 1000000000 + (e - 1) * 1000 + o, or   *)
(* to its negation when the negate flag is set; e is the constant's own    *)
(* extension number when it carries one and the declaring extension's      *)
(* number otherwise.                                                       *)
C5_ExtensionOffsetValue ==
    IsOffsetDecl(last) =>
        LET e == IF "extnumber" \in DOMAIN last.elem
                 THEN last.elem.extnumber
                 ELSE last.extension[1].number
            n == 1000000000 + (e - 1) * 1000 + last.elem.offset
            negate == "dir" \in DOMAIN last.elem /\ last.elem.dir = "-"
        IN /\ last.elem.name \in DictKeys(TheVkEnum.name_to_value)
           /\ DictGet(TheVkEnum.name_to_value, last.elem.name)
                  = IF negate THEN 0 - n ELSE n

\* extension number 5, offset 3: 1000004003, and the declaring extension's
\* number 2 with the negate flag: -1000001003
C5_Witness ==
    /\ IsOffsetDecl(last)
    /\ \/ /\ "extnumber" \in DOMAIN last.elem
          /\ last.extension # NoneV
          /\ "dir" \notin DOMAIN last.elem
          /\ DictGet(TheVkEnum.name_to_value, last.elem.name) = 1000004003
       \/ /\ "extnumber" \notin DOMAIN last.elem
          /\ "dir" \in DOMAIN last.elem /\ last.elem.dir = "-"
          /\ DictGet(TheVkEnum.name_to_value, last.elem.name) = 0 - 1000001003

----------------------------------------------------------------------------
(* An alias chain n1 -> n2 -> ... -> nk declared in every order.           *)

ChainName(i) == "N" \o ToString(i)

\* the declaration of the chain's i-th member: an alias of the next member,
\* and the last member by the terminal declaration
ChainDecl(i, k, terminal) ==
    IF i = k THEN [terminal EXCEPT !.name = ChainName(k)]
    ELSE [name |-> ChainName(i), alias |-> ChainName(i + 1)]

ChainTerminals ==
    {[name |-> "", value |-> 7],
     [name |-> "", bitpos |-> 2],
     [name |-> "", offset |-> 3, extnumber |-> 5]}

Orders(k) == {p \in [1..k -> 1..k] : \A i, j \in 1..k : p[i] = p[j] => i = j}

InitChain ==
    /\ enum_factory = [n \in {TheEnum} |-> VkEnum(n, 32)]
    /\ pc = "load"
    /\ last = NoElem
    /\ nelems = 0
    /\ ident = <<>> /\ max_enum_name = NoneV
    /\ MainIdle
    /\ \E k \in 1..MaxChain, terminal \in ChainTerminals :
           \E p \in Orders(k) :
               input = [i \in 1..k |-> ChainDecl(p[i], k, terminal)]

\* the next declaration of the list is passed to add_value_from_xml
DeclareNext ==
    /\ pc = "load"
    /\ nelems < Len(input)
    /\ LET r == add_value_from_xml(enum_factory[TheEnum], input[nelems + 1], NoneV)
       IN /\ enum_factory' = [enum_factory EXCEPT ![TheEnum] = r.enum]
          /\ pc' = IF r.err = NoError THEN "load" ELSE "failed"
    /\ last' = [kind |-> "enum", elem |-> input[nelems + 1], extension |-> NoneV]
    /\ nelems' = nelems + 1
    /\ UNCHANGED <<input, nameVars, once, mainVars>>

NextChain == DeclareNext

SpecChain == InitChain /\ [][NextChain]_vars

\* the value the chain's terminal declaration states
ChainValue ==
    LET t == CHOOSE x \in MapRange(input) : "alias" \notin DOMAIN x
    IN IF "value" \in DOMAIN t THEN t.value
       ELSE IF "bitpos" \in DOMAIN t THEN 2 ^ t.bitpos
       ELSE 1000000000 + (t.extnumber - 1) * 1000 + t.offset

(* C2: for an alias chain whose last member is declared with a literal,    *)
(* bit-position or extension-offset value v, in every order of the k       *)
(* declarations, once all k are made every member of the chain is in the   *)
(* name-to-value map with value v.                                         *)
C2_ChainResolvesInAnyOrder ==
    nelems = Len(input) =>
        /\ pc = "load"
        /\ \A i \in 1..Len(input) :
              /\ ChainName(i) \in DictKeys(TheVkEnum.name_to_value)
              /\ DictGet(TheVkEnum.name_to_value, ChainName(i)) = ChainValue

\* a chain of three declared terminal first, then its head, then the middle:
\* the head waits on the middle and is resolved by the last declaration
C2_Witness ==
    /\ Len(input) >= 3
    /\ nelems = Len(input)
    /\ "alias" \notin DOMAIN input[1]
    /\ input[2].name = ChainName(1)
    /\ DictGet(TheVkEnum.name_to_value, ChainName(1)) = ChainValue
    /\ TheVkEnum.name_to_alias_list = EmptyMap

----------------------------------------------------------------------------
(* Strings as sequences of characters; the sentinel name.                  *)

UpperLetters == <<"A", "B", "C", "D", "E", "F", "G", "H", "I", "J", "K", "L", "M",
                  "N", "O", "P", "Q", "R", "S", "T", "U", "V", "W", "X", "Y", "Z">>
LowerLetters == <<"a", "b", "c", "d", "e", "f", "g", "h", "i", "j", "k", "l", "m",
                  "n", "o", "p", "q", "r", "s", "t", "u", "v", "w", "x", "y", "z">>

\* the slice s[a-1:b] of Python (1-based and inclusive here), which stops at
\* the end of s
Slice(s, a, b) ==
    LET end == IF b > Len(s) THEN Len(s) ELSE b
    IN [i \in 1..(end - a + 1) |-> s[a + i - 1]]

\* the character class [A-Z]
IsAZ(c) == \E i \in 1..Len(UpperLetters) : UpperLetters[i] = c

\* str.upper, one character
upper_char(c) ==
    IF \E i \in 1..Len(LowerLetters) : LowerLetters[i] = c
    THEN UpperLetters[CHOOSE i \in 1..Len(LowerLetters) : LowerLetters[i] = c]
    ELSE c

\* str.upper
upper(s) == [i \in 1..Len(s) |-> upper_char(s[i])]

RECURSIVE re_sub_capital(_, _)
(* re.sub(r'(?<![A-Z])([A-Z])', r'_\1', t) from position j on: a capital   *)
(* that no capital precedes IN t gets a '_' before it; at the first        *)
(* position of t there is nothing for the lookbehind to see.               *)
re_sub_capital(t, j) ==
    IF j > Len(t) THEN <<>>
    ELSE (IF IsAZ(t[j]) /\ (j = 1 \/ ~IsAZ(t[j - 1]))
          THEN <<"_", t[j]>> ELSE <<t[j]>>)
         \o re_sub_capital(t, j + 1)

\* CamelCase_to_SHOUT_CASE: s[:1] is kept and the substitution runs on s[1:]
CamelCase_to_SHOUT_CASE(s) ==
    upper(Slice(s, 1, 1) \o re_sub_capital(Slice(s, 2, Len(s)), 1))

\* the positions of '_' in s
Underscores(s) == {i \in 1..Len(s) : s[i] = "_"}
Max(S) == CHOOSE x \in S : \A y \in S : y <= x

\* s.rsplit('_', 1)[-1]
rsplit_last(s) ==
    IF Underscores(s) = {} THEN s
    ELSE Slice(s, Max(Underscores(s)) + 1, Len(s))

\* "_".join(s.split('_')[:-1])
join_all_but_last(s) ==
    IF Underscores(s) = {} THEN <<>>
    ELSE Slice(s, 1, Max(Underscores(s)) - 1)

\* the prefixes that are always put at the end
VendorTags == {<<"A", "M", "D">>, <<"E", "X", "T">>, <<"I", "N", "T", "E", "L">>,
               <<"K", "H", "R">>, <<"N", "V">>, <<"L", "U", "N", "A", "R", "G">>}

MAX_ENUM == <<"_", "M", "A", "X", "_", "E", "N", "U", "M">>

\* compute_max_enum_name
compute_max_enum_name(s) ==
    LET name == CamelCase_to_SHOUT_CASE(s)
        last_prefix == rsplit_last(name)
    IN IF last_prefix \in VendorTags
       THEN join_all_but_last(name) \o MAX_ENUM \o <<"_">> \o last_prefix
       ELSE name \o MAX_ENUM

\* the identifiers tried: every string over IdentChars up to MaxIdent
\* characters, and the two names the specification gives as examples
IdentChars == {"V", "k", "N", "_", "2"}
VkResult == <<"V", "k", "R", "e", "s", "u", "l", "t">>
VkDebugReportObjectTypeEXT ==
    <<"V", "k", "D", "e", "b", "u", "g", "R", "e", "p", "o", "r", "t",
      "O", "b", "j", "e", "c", "t", "T", "y", "p", "e", "E", "X", "T">>
Identifiers ==
    UNION {[1..n -> IdentChars] : n \in 0..MaxIdent}
    \cup {VkResult, VkDebugReportObjectTypeEXT}

InitName ==
    /\ enum_factory = EmptyMap
    /\ pc = "load"
    /\ last = NoElem
    /\ nelems = 0
    /\ input = <<>>
    /\ ident \in Identifiers
    /\ max_enum_name = NoneV
    /\ MainIdle

\* VkEnum.__init__: self.max_enum_name = compute_max_enum_name(name)
ComputeMaxEnumName ==
    /\ max_enum_name = NoneV
    /\ max_enum_name' = Some(compute_max_enum_name(ident))
    /\ UNCHANGED <<enum_factory, pc, last, nelems, input, ident, once, mainVars>>

NextName == ComputeMaxEnumName

SpecName == InitName /\ [][NextName]_vars

\* the upper-snake form the claim describes: position by position, a '_'
\* before each capital letter after the first character that the character
\* before it is not a capital letter
RECURSIVE Flatten(_)
Flatten(ss) == IF ss = <<>> THEN <<>> ELSE Head(ss) \o Flatten(Tail(ss))
ClaimedUpperSnake(s) ==
    Flatten([i \in 1..Len(s) |->
                IF i > 1 /\ IsAZ(s[i]) /\ ~IsAZ(s[i - 1])
                THEN <<"_", upper_char(s[i])>> ELSE <<upper_char(s[i])>>])

\* whether u ends with the segment tag: the whole of u, or after a '_'
EndsWithSegment(u, tag) ==
    /\ Len(u) >= Len(tag)
    /\ Slice(u, Len(u) - Len(tag) + 1, Len(u)) = tag
    /\ Len(u) > Len(tag) => u[Len(u) - Len(tag)] = "_"

ClaimedMaxEnumName(s) ==
    LET u == ClaimedUpperSnake(s)
    IN IF \E tag \in VendorTags : EndsWithSegment(u, tag)
       THEN LET tag == CHOOSE t \in VendorTags : EndsWithSegment(u, t)
            IN Slice(u, 1, Len(u) - Len(tag) - 1) \o MAX_ENUM \o <<"_">> \o tag
       ELSE u \o MAX_ENUM

(* C4: for every enumeration identifier s, compute_max_enum_name(s) is the *)
(* upper-cased s with one '_' before each capital letter that is not       *)
(* immediately preceded by a capital letter (none before the first         *)
(* character), followed by _MAX_ENUM, with a final vendor-tag segment      *)
(* moved behind _MAX_ENUM_.                                                *)
C4_MaxEnumNameAsClaimed ==
    max_enum_name # NoneV => The(max_enum_name) = ClaimedMaxEnumName(ident)

----------------------------------------------------------------------------
(* parse_xml, one element of the document at a time.  pc is the loop of    *)
(* parse_xml that is running; the element each step consumes is the        *)
(* environment's choice, so a run is the parse of an arbitrary sequence of *)
(* documents.  An exception leaves pc = "failed", where nothing is enabled.*)

\* the result of a step that may raise: go on in `next`, or main has died
After(err, next) == IF err = NoError THEN next ELSE "failed"

\* for value in enum_type.findall('./enum'): enum.add_value_from_xml(value),
\* on the registry the enumeration is in
AddToRegistry(registry, name, elem, extension) ==
    LET r == add_value_from_xml(registry[name], elem, extension)
    IN [registry |-> [registry EXCEPT ![name] = r.enum], err |-> r.err]

\* an enums[@type="enum"] element without children
ParseEnumType(name) ==
    /\ pc = "enums"
    /\ enum_factory' = Factory(enum_factory, name, VkEnum(name, 32))
    /\ last' = [kind |-> "enums", name |-> name]
    /\ nelems' = nelems + 1
    /\ UNCHANGED <<pc, input, nameVars, once, mainVars>>

\* one enum child of an enums[@type="enum"] element
ParseEnumValue(name, elem) ==
    /\ pc = "enums"
    /\ LET r == AddToRegistry(Factory(enum_factory, name, VkEnum(name, 32)),
                              name, elem, NoneV)
       IN /\ enum_factory' = r.registry
          /\ pc' = After(r.err, "enums")
    /\ last' = [kind |-> "enum", elem |-> elem, extension |-> NoneV]
    /\ nelems' = nelems + 1
    /\ UNCHANGED <<input, nameVars, once, mainVars>>

\* an enums[@type="bitmask"] element without children
ParseBitmaskType(name, bitwidth) ==
    /\ pc = "bitmasks"
    /\ bitmask_factory' = Factory(bitmask_factory, name, VkEnum(name, bitwidth))
    /\ last' = [kind |-> "bitmasks", name |-> name]
    /\ nelems' = nelems + 1
    /\ UNCHANGED <<enum_factory, pc, input, nameVars, once, ext_factory, struct_factory,
                   obj_type_factory, platform_define, cur_ext, files>>

\* one enum child of an enums[@type="bitmask"] element
ParseBitmaskValue(name, bitwidth, elem) ==
    /\ pc = "bitmasks"
    /\ LET r == AddToRegistry(Factory(bitmask_factory, name, VkEnum(name, bitwidth)),
                              name, elem, NoneV)
       IN /\ bitmask_factory' = r.registry
          /\ pc' = After(r.err, "bitmasks")
    /\ last' = [kind |-> "enum", elem |-> elem, extension |-> NoneV]
    /\ nelems' = nelems + 1
    /\ UNCHANGED <<enum_factory, input, nameVars, once, ext_factory, struct_factory,
                   obj_type_factory, platform_define, cur_ext, files>>

\* mutant: the plain enumeration is taken with the factory's call, which
\* creates the one that is missing
ExtendEnums_creating(elem, extension) ==
    LET r1 == AddToRegistry(Factory(enum_factory, elem.extends,
                                    VkEnum(elem.extends, 32)),
                            elem.extends, elem, extension)
        r2 == IF r1.err = NoError /\ elem.extends \in DOMAIN bitmask_factory
              THEN AddToRegistry(bitmask_factory, elem.extends, elem, extension)
              ELSE [registry |-> bitmask_factory, err |-> r1.err]
    IN [enum_factory |-> r1.registry, bitmask_factory |-> r2.registry, err |-> r2.err]

(* The body of the two loops over enum[@extends]: the element is added to  *)
(* the plain enumeration of that name, if there is one, and then to the    *)
(* bitmask of that name, if there is one.                                  *)
ExtendEnums(elem, extension) ==
    LET r1 == IF elem.extends \in DOMAIN enum_factory
              THEN AddToRegistry(enum_factory, elem.extends, elem, extension)
              ELSE [registry |-> enum_factory, err |-> NoError]
        r2 == IF r1.err = NoError /\ elem.extends \in DOMAIN bitmask_factory
              THEN AddToRegistry(bitmask_factory, elem.extends, elem, extension)
              ELSE [registry |-> bitmask_factory, err |-> r1.err]
    IN [enum_factory |-> r1.registry, bitmask_factory |-> r2.registry, err |-> r2.err]

\* one feature/require/enum[@extends] element
ParseFeatureEnum(elem) ==
    /\ pc = "features"
    /\ LET r == ExtendEnums(elem, NoneV)
       IN /\ enum_factory' = r.enum_factory
          /\ bitmask_factory' = r.bitmask_factory
          /\ pc' = After(r.err, "features")
    /\ last' = [kind |-> "extends", elem |-> elem, extension |-> NoneV]
    /\ nelems' = nelems + 1
    /\ UNCHANGED <<input, nameVars, once, ext_factory, struct_factory, obj_type_factory,
                   platform_define, cur_ext, files>>

\* mutant: any member named sType that has values decides
struct_get_stype_any(members) ==
    IF \E i \in 1..Len(members) :
           /\ "name" \in DOMAIN members[i] /\ members[i].name = "sType"
           /\ "values" \in DOMAIN members[i]
    THEN Some("ST") ELSE NoneV

RECURSIVE struct_get_stype_from(_, _)
\* the loop of struct_get_stype from the i-th member on
struct_get_stype_from(members, i) ==
    IF i > Len(members) THEN NoneV
    ELSE IF "name" \in DOMAIN members[i] /\ members[i].name = "sType"
    THEN (IF "values" \in DOMAIN members[i] THEN Some(members[i].values) ELSE NoneV)
    ELSE struct_get_stype_from(members, i + 1)

\* struct_get_stype; a member is a record of its name child's text, if it
\* has one, and its values attribute, if it has one
struct_get_stype(members) == struct_get_stype_from(members, 1)

\* one types/type[@category="struct"] element
ParseStruct(name, members) ==
    /\ pc = "structs"
    /\ LET stype == struct_get_stype(members)
       IN struct_factory' =
              IF stype # NoneV
              THEN Factory(struct_factory, name, VkChainStruct(name, The(stype)))
              ELSE struct_factory
    /\ last' = [kind |-> "struct", name |-> name, members |-> members]
    /\ nelems' = nelems + 1
    /\ UNCHANGED <<enum_factory, pc, input, nameVars, once, bitmask_factory, ext_factory,
                   obj_type_factory, platform_define, cur_ext, files>>

\* one platforms/platform element
ParsePlatform(name, protect) ==
    /\ pc = "platforms"
    /\ platform_define' = MapSet(platform_define, name, protect)
    /\ last' = [kind |-> "platform", name |-> name]
    /\ nelems' = nelems + 1
    /\ UNCHANGED <<enum_factory, pc, input, nameVars, once, bitmask_factory, ext_factory,
                   struct_factory, obj_type_factory, cur_ext, files>>

(* The head of the loop over extensions/extension[@supported="vulkan"]:    *)
(* define is looked up (a platform that was not declared is a KeyError)    *)
(* and the extension is taken from the factory.                            *)
ParseExtension(elem) ==
    /\ pc = "extensions"
    /\ IF "platform" \in DOMAIN elem /\ elem.platform \notin DOMAIN platform_define
       THEN /\ pc' = "failed"
            /\ UNCHANGED <<ext_factory, cur_ext>>
       ELSE LET define == IF "platform" \in DOMAIN elem
                          THEN platform_define[elem.platform] ELSE "None"
            IN /\ ext_factory' = Factory(ext_factory, elem.name,
                                         VkExtension(elem.name, elem.number, define))
               /\ cur_ext' = Some([name |-> elem.name, define |-> define])
               /\ pc' = "ext_enums"
    /\ last' = [kind |-> "extension", elem |-> elem]
    /\ nelems' = nelems + 1
    /\ UNCHANGED <<enum_factory, input, nameVars, once, bitmask_factory, struct_factory,
                   obj_type_factory, platform_define, files>>

\* one require/enum[@extends] element of the current extension
ParseExtEnum(elem) ==
    /\ pc = "ext_enums"
    /\ LET extension == Some(ext_factory[The(cur_ext).name])
           r == ExtendEnums(elem, extension)
       IN /\ enum_factory' = r.enum_factory
          /\ bitmask_factory' = r.bitmask_factory
          /\ pc' = After(r.err, "ext_enums")
          /\ last' = [kind |-> "extends", elem |-> elem, extension |-> extension]
    /\ nelems' = nelems + 1
    /\ UNCHANGED <<input, nameVars, once, ext_factory, struct_factory, obj_type_factory,
                   platform_define, cur_ext, files>>

\* a guard that `if define:` and `% if enum.guard:` take as set
Truthy(g) == g # "None" /\ g # ""

\* VkEnum.set_guard
set_guard(e, g) == [e EXCEPT !.guard = g]

\* the struct loop's body: struct.extension = extension
set_struct_extension(structs, name, extension) ==
    IF name \in DOMAIN structs
    THEN [structs EXCEPT ![name].extension = extension]
    ELSE structs

\* the guard loop's body, run when define is set: only enum_factory is asked
guard_required_enum(enums, name, define) ==
    IF Truthy(define) /\ name \in DOMAIN enums
    THEN [enums EXCEPT ![name] = set_guard(@, define)]
    ELSE enums

(* One require/type element of the current extension, as the two loops     *)
(* over the types treat it: the struct of that name gets the extension,    *)
(* and, when define is set, the plain enumeration of that name the guard.  *)
(* The loops write different registries, so taking the element through     *)
(* both at once reaches the states the two passes reach.                   *)
ParseExtType(name) ==
    /\ pc = "ext_types"
    /\ struct_factory' = set_struct_extension(struct_factory, name, The(cur_ext).name)
    /\ enum_factory' = guard_required_enum(enum_factory, name, The(cur_ext).define)
    /\ last' = [kind |-> "type", name |-> name]
    /\ nelems' = nelems + 1
    /\ UNCHANGED <<pc, input, nameVars, once, bitmask_factory, ext_factory, obj_type_factory,
                   platform_define, cur_ext, files>>

\* whether a handle's objtypeenum has a value in the plain enumeration
\* VkObjectType
Resolvable(enums, elem) ==
    /\ "VkObjectType" \in DOMAIN enums
    /\ "objtypeenum" \in DOMAIN elem
    /\ elem.objtypeenum \in DictKeys(enums["VkObjectType"].name_to_value)

\* mutant: a handle whose discriminant has no value is passed over
ParseHandle_lenient(elem) ==
    /\ pc = "handles"
    /\ obj_type_factory' =
           IF Resolvable(enum_factory, elem)
           THEN [obj_type_factory EXCEPT !["VkObjectType"].enum_to_name =
                    MapSet(@, DictGet(enum_factory["VkObjectType"].name_to_value,
                                      elem.objtypeenum), elem.name)]
           ELSE obj_type_factory
    /\ last' = [kind |-> "handle", elem |-> elem]
    /\ nelems' = nelems + 1
    /\ UNCHANGED <<enum_factory, pc, input, nameVars, once, bitmask_factory, ext_factory,
                   struct_factory, platform_define, cur_ext, files>>

(* One name child of a types/type[@category="handle"] element: the lookup  *)
(* of the discriminant raises (KeyError, or AttributeError on None) when   *)
(* it has no value, else the object's name is recorded under the value.    *)
ParseHandle(elem) ==
    /\ pc = "handles"
    /\ IF Resolvable(enum_factory, elem)
       THEN LET enum_val == DictGet(enum_factory["VkObjectType"].name_to_value,
                                    elem.objtypeenum)
            IN /\ obj_type_factory' =
                     [obj_type_factory EXCEPT !["VkObjectType"].enum_to_name =
                         MapSet(@, enum_val, elem.name)]
               /\ pc' = "handles"
       ELSE /\ pc' = "failed"
            /\ UNCHANGED obj_type_factory
    /\ last' = [kind |-> "handle", elem |-> elem]
    /\ nelems' = nelems + 1
    /\ UNCHANGED <<enum_factory, input, nameVars, once, bitmask_factory, ext_factory,
                   struct_factory, platform_define, cur_ext, files>>

\* the loop that follows each loop of parse_xml
NextLoop ==
    [enums |-> "bitmasks", bitmasks |-> "features", features |-> "structs",
     structs |-> "platforms", platforms |-> "extensions", extensions |-> "handles",
     ext_enums |-> "ext_types", ext_types |-> "extensions"]

(* The running loop has no element left.  Before the handle loop parse_xml *)
(* takes VkObjectType from obj_type_factory.                               *)
EndLoop ==
    /\ pc \in DOMAIN NextLoop
    /\ pc' = NextLoop[pc]
    /\ obj_type_factory' =
           IF pc = "extensions"
           THEN Factory(obj_type_factory, "VkObjectType", VkObjectType("VkObjectType"))
           ELSE obj_type_factory
    /\ cur_ext' = IF pc = "ext_types" THEN NoneV ELSE cur_ext
    /\ last' = NoElem
    /\ UNCHANGED <<enum_factory, nelems, input, nameVars, once, bitmask_factory, ext_factory,
                   struct_factory, platform_define, files>>

\* what the claims call the resolved model: the maps and guard of every
\* enumeration and bitmask, the extensions, the structs and the object types
Resolved(e) ==
    [name_to_value |-> {e.name_to_value[i] : i \in 1..Len(e.name_to_value)},
     values |-> e.values,
     guard |-> e.guard]
ResolvedModel ==
    [enums |-> [n \in DOMAIN enum_factory |-> Resolved(enum_factory[n])],
     bitmasks |-> [n \in DOMAIN bitmask_factory |-> Resolved(bitmask_factory[n])],
     extensions |-> ext_factory,
     structs |-> struct_factory,
     object_types |-> obj_type_factory]

\* parse_xml returns and main calls it on the next file
NextDocument ==
    /\ pc = "handles"
    /\ pc' = "enums"
    /\ platform_define' = EmptyMap
    /\ last' = NoElem
    /\ once' = IF input = <<>> THEN once ELSE Some(ResolvedModel)
    /\ UNCHANGED <<enum_factory, nelems, input, ident, max_enum_name, bitmask_factory,
                   ext_factory, struct_factory, obj_type_factory, cur_ext, files>>

\* parse_xml returns from the last file
EndOfDocuments ==
    /\ pc = "handles"
    /\ pc' = "render"
    /\ platform_define' = EmptyMap
    /\ last' = NoElem
    /\ UNCHANGED <<enum_factory, nelems, input, nameVars, once, bitmask_factory, ext_factory,
                   struct_factory, obj_type_factory, cur_ext, files>>

----------------------------------------------------------------------------
(* main's rendering of the three templates.  A rendered file is the record *)
(* of what the template's loops emit; hex() of a number is kept as the     *)
(* number.                                                                 *)

\* the characters of the type, extension and constant names the runs use
Spelling ==
    [VkObjectType |-> <<"V", "k", "O", "b", "j", "e", "c", "t", "T", "y", "p", "e">>,
     VkE |-> <<"V", "k", "E">>,
     VkQFlagBits |-> <<"V", "k", "Q", "F", "l", "a", "g", "B", "i", "t", "s">>,
     VkQFlagBits2 |-> <<"V", "k", "Q", "F", "l", "a", "g", "B", "i", "t", "s", "2">>,
     VkBadFlags |-> <<"V", "k", "B", "a", "d", "F", "l", "a", "g", "s">>,
     VkS |-> <<"V", "k", "S">>,
     VkT |-> <<"V", "k", "T">>,
     VK_EXT_x |-> <<"V", "K", "_", "E", "X", "T", "_", "x">>,
     VK_KHR_y |-> <<"V", "K", "_", "K", "H", "R", "_", "y">>,
     VkUnknown |-> <<"V", "k", "U", "n", "k", "n", "o", "w", "n">>,
     A |-> <<"A">>, BB |-> <<"B", "B">>, CC |-> <<"C", "C">>, DD |-> <<"D", "D">>]

Chars(name) == Spelling[name]

\* the order of Python's str comparison on the characters that occur
Ascii == <<"0", "1", "2", "3", "4", "5", "6", "7", "8", "9">> \o UpperLetters
         \o <<"_">> \o LowerLetters
Ord(c) == CHOOSE i \in 1..Len(Ascii) : Ascii[i] = c
Min(S) == CHOOSE x \in S : \A y \in S : x <= y

\* a < b on strings
StrLess(a, b) ==
    LET n == IF Len(a) < Len(b) THEN Len(a) ELSE Len(b)
        diff == {i \in 1..n : a[i] # b[i]}
    IN IF diff = {} THEN Len(a) < Len(b)
       ELSE Ord(a[Min(diff)]) < Ord(b[Min(diff)])

RECURSIVE SortedNames(_)
\* the names S in the order of sorted(..., key=lambda e: e.name)
SortedNames(S) ==
    IF S = {} THEN <<>>
    ELSE LET m == CHOOSE x \in S : \A y \in S \ {x} : StrLess(Chars(x), Chars(y))
         IN <<m>> \o SortedNames(S \ {m})

RECURSIVE SortedInts(_)
\* sorted() of a set of numbers
SortedInts(S) ==
    IF S = {} THEN <<>> ELSE <<Min(S)>> \o SortedInts(S \ {Min(S)})

RECURSIVE BitOr(_, _)
\* a | b on numbers that are not negative
BitOr(a, b) ==
    IF a = 0 THEN b
    ELSE IF b = 0 THEN a
    ELSE (IF a % 2 = 1 \/ b % 2 = 1 THEN 1 ELSE 0) + 2 * BitOr(a \div 2, b \div 2)

RECURSIVE OrAll(_, _)
\* functools.reduce(lambda a, b: a | b, keys, acc)
OrAll(keys, acc) ==
    IF keys = {} THEN acc
    ELSE LET k == CHOOSE x \in keys : TRUE IN OrAll(keys \ {k}, BitOr(acc, k))

\* VkEnum.all_bits_value
all_bits_value(e) == OrAll(DOMAIN e.values, 0)

\* re.search(r'FlagBits[A-Z]*$', s)
FlagBits == <<"F", "l", "a", "g", "B", "i", "t", "s">>
EndsInFlagBits(s) ==
    \E i \in 1..Len(s) :
        /\ i + Len(FlagBits) - 1 <= Len(s)
        /\ Slice(s, i, i + Len(FlagBits) - 1) = FlagBits
        /\ \A j \in (i + Len(FlagBits))..Len(s) : IsAZ(s[j])

\* the two assertions of VkEnum.all_bits_name
all_bits_name_asserts(s) ==
    /\ Slice(s, 1, 2) = <<"V", "k">>
    /\ EndsInFlagBits(s)

\* VkEnum.all_bits_name, when its assertions hold
all_bits_name(s) ==
    <<"V", "K", "_", "A", "L", "L", "_">> \o CamelCase_to_SHOUT_CASE(Slice(s, 3, Len(s)))

\* the guard a template wraps an enumeration in: `% if enum.guard:`
EmittedGuard(e) == IF Truthy(e.guard) THEN e.guard ELSE "None"

\* C_TEMPLATE, one enumeration: a case per key of values, then the sentinel
c_enum(e) ==
    LET keys == SortedInts(DOMAIN e.values)
    IN [name |-> e.name,
        guard |-> EmittedGuard(e),
        cases |-> [i \in 1..Len(keys) |-> <<keys[i], e.values[keys[i]]>>],
        max_enum_name |-> compute_max_enum_name(Chars(e.name))]

\* mutant: the struct's case is emitted without looking at its extension
c_struct_unguarded(st) ==
    [stype |-> st.stype, name |-> st.name, guard |-> "None"]

\* C_TEMPLATE, one struct: the case, inside the guard of its extension
c_struct(st) ==
    [stype |-> st.stype,
     name |-> st.name,
     guard |-> IF st.extension # "None" /\ ext_factory[st.extension].define # "None"
               THEN ext_factory[st.extension].define ELSE "None"]

\* C_TEMPLATE
render_c ==
    LET enums == SortedNames(DOMAIN enum_factory)
        structs == SortedNames(DOMAIN struct_factory)
        object_types == obj_type_factory["VkObjectType"].enum_to_name
        keys == SortedInts(DOMAIN object_types)
    IN [err |-> NoError,
        enums |-> [i \in 1..Len(enums) |-> c_enum(enum_factory[enums[i]])],
        structs |-> [i \in 1..Len(structs) |-> c_struct(struct_factory[structs[i]])],
        object_types |-> [i \in 1..Len(keys) |-> <<keys[i], object_types[keys[i]]>>]]

\* H_TEMPLATE
render_h ==
    LET enums == SortedNames(DOMAIN enum_factory)
    IN [err |-> NoError,
        enums |-> [i \in 1..Len(enums) |->
                      [name |-> enums[i], guard |-> EmittedGuard(enum_factory[enums[i]])]]]

\* the bitmasks one loop of H_DEFINE_TEMPLATE does not skip
Narrow(b) == ~(bitmask_factory[b].bitwidth > 32)
Wide(b) == ~(bitmask_factory[b].bitwidth < 64)

\* H_DEFINE_TEMPLATE, the all-bits definition of one bitmask
h_define_all_bits(e) ==
    [name |-> all_bits_name(Chars(e.name)),
     guard |-> EmittedGuard(e),
     value |-> all_bits_value(e),
     of |-> e.name]

\* H_DEFINE_TEMPLATE, the redefinitions of one 64-bit bitmask
h_define_redefine(e) ==
    [name |-> e.name, guard |-> EmittedGuard(e), defines |-> e.name_to_value]

\* H_DEFINE_TEMPLATE; all_bits_name's assertions end the rendering
render_h_define ==
    LET extensions == SortedNames(DOMAIN ext_factory)
        bitmasks == SortedNames(DOMAIN bitmask_factory)
        narrow == SelectSeq(bitmasks, Narrow)
        wide == SelectSeq(bitmasks, Wide)
    IN IF \E i \in 1..Len(narrow) : ~all_bits_name_asserts(Chars(narrow[i]))
       THEN [err |-> "AssertionError"]
       ELSE [err |-> NoError,
             extensions |-> [i \in 1..Len(extensions) |->
                                [name |-> extensions[i],
                                 number |-> ext_factory[extensions[i]].number]],
             all_bits |-> [i \in 1..Len(narrow) |->
                              h_define_all_bits(bitmask_factory[narrow[i]])],
             redefines |-> [i \in 1..Len(wide) |->
                               h_define_redefine(bitmask_factory[wide[i]])]]

\* the templates in the order of main's loop
Rendered(i) == IF i = 1 THEN render_c ELSE IF i = 2 THEN render_h ELSE render_h_define

\* the next file main's loop writes
NextFile == Min({i \in 1..3 : files[i].state = "absent"})

(* One turn of main's loop over the templates: open(file_, 'w') creates    *)
(* the file empty, then the template is rendered and the text written.  A  *)
(* rendering that raises leaves the file as open() made it.                *)
RenderFile ==
    /\ pc = "render"
    /\ LET i == NextFile
           r == Rendered(i)
       IN /\ files' = [files EXCEPT ![i] =
                          IF r.err = NoError
                          THEN [state |-> "complete", text |-> r]
                          ELSE [state |-> "empty"]]
          /\ pc' = IF r.err # NoError THEN "failed"
                   ELSE IF i = 3 THEN "done" ELSE "render"
    /\ last' = NoElem
    /\ UNCHANGED <<enum_factory, nelems, input, nameVars, once, bitmask_factory, ext_factory,
                   struct_factory, obj_type_factory, platform_define, cur_ext>>

\* main before the first parse_xml
InitMain ==
    /\ enum_factory = EmptyMap
    /\ pc = "enums"
    /\ last = NoElem
    /\ nelems = 0
    /\ input = <<>>
    /\ ident = <<>> /\ max_enum_name = NoneV
    /\ MainIdle

----------------------------------------------------------------------------
(* Structs, platforms and extensions: runs of main over documents that     *)
(* declare two structs, a plain enumeration, a bitmask, a platform and     *)
(* extensions that require those types.                                    *)

GuardStructNames == {"VkS", "VkT"}
GuardMembers ==
    {<<[name |-> "sType", values |-> "ST"], [name |-> "pNext"]>>,
     <<[name |-> "sType"], [name |-> "pNext"]>>,
     <<[name |-> "x"]>>,
     <<[name |-> "sType"], [name |-> "sType", values |-> "ST"]>>,
     <<[values |-> "ST"], [name |-> "x", values |-> "ST"]>>,
     <<[name |-> "x"], [name |-> "sType", values |-> "ST"]>>}
GuardExtensions ==
    {[name |-> "VK_EXT_x", number |-> 1, platform |-> "xlib"],
     [name |-> "VK_KHR_y", number |-> 2],
     [name |-> "VK_KHR_y", number |-> 2, platform |-> "win32"]}
GuardTypes == {"VkS", "VkE", "VkQFlagBits"}

GuardBudget == nelems < MaxGuardElems

NextGuard ==
    \/ GuardBudget /\ ParseEnumType("VkE")
    \/ GuardBudget /\ ParseBitmaskType("VkQFlagBits", 32)
    \/ GuardBudget /\ \E name \in GuardStructNames, members \in GuardMembers :
                         ParseStruct(name, members)
    \/ GuardBudget /\ ParsePlatform("xlib", "G_XLIB")
    \/ GuardBudget /\ \E elem \in GuardExtensions : ParseExtension(elem)
    \/ GuardBudget /\ \E name \in GuardTypes : ParseExtType(name)
    \/ EndLoop
    \/ NextDocument
    \/ EndOfDocuments
    \/ RenderFile

SpecGuard == InitMain /\ [][NextGuard]_vars

\* the guard of the extension whose require/type element was just parsed
RequiringGuard == ext_factory[The(cur_ext).name].define

\* the last step parsed a require/type element of an extension with a guard
GuardedTypeRequired ==
    /\ last.kind = "type"
    /\ cur_ext # NoneV
    /\ Truthy(RequiringGuard)

\* every emission of an enumeration in the written files carries the guard
\* the enumeration holds
EmissionsCarryGuard ==
    /\ files[1].state = "complete" =>
           \A i \in 1..Len(files[1].text.enums) :
               files[1].text.enums[i].guard
                   = enum_factory[files[1].text.enums[i].name].guard
    /\ files[2].state = "complete" =>
           \A i \in 1..Len(files[2].text.enums) :
               files[2].text.enums[i].guard
                   = enum_factory[files[2].text.enums[i].name].guard
    /\ files[3].state = "complete" =>
           /\ \A i \in 1..Len(files[3].text.all_bits) :
                  files[3].text.all_bits[i].guard
                      = bitmask_factory[files[3].text.all_bits[i].of].guard
           /\ \A i \in 1..Len(files[3].text.redefines) :
                  files[3].text.redefines[i].guard
                      = bitmask_factory[files[3].text.redefines[i].name].guard

(* C7: every enumeration, plain or bitmask, whose type an extension with a *)
(* platform guard requires has its guard set to that guard, and each of    *)
(* its emissions in the three files is wrapped in it.                      *)
C7_RequiredEnumerationsGuarded ==
    /\ GuardedTypeRequired =>
           /\ last.name \in DOMAIN enum_factory =>
                  enum_factory[last.name].guard = RequiringGuard
           /\ last.name \in DOMAIN bitmask_factory =>
                  bitmask_factory[last.name].guard = RequiringGuard
    /\ EmissionsCarryGuard

\* the guard of the extension a struct holds, None without one
OwnerGuard(st) ==
    IF st.extension = "None" THEN "None" ELSE ext_factory[st.extension].define

(* C8: every struct of the size table is emitted exactly once, inside the  *)
(* guard of its owning extension when that extension has one and unguarded *)
(* otherwise; the owning extension is the extension the struct holds,      *)
(* which after every require/type element naming the struct is the         *)
(* extension that element belongs to, whatever required it before.         *)
C8_StructCaseInOwnersGuard ==
    /\ (last.kind = "type" /\ last.name \in DOMAIN struct_factory) =>
           struct_factory[last.name].extension = The(cur_ext).name
    /\ files[1].state = "complete" =>
           LET cases == files[1].text.structs
           IN /\ {cases[i].name : i \in 1..Len(cases)} = DOMAIN struct_factory
              /\ Len(cases) = Cardinality(DOMAIN struct_factory)
              /\ \A i \in 1..Len(cases) :
                     cases[i].guard = OwnerGuard(struct_factory[cases[i].name])

\* a struct required first by the guarded extension and then by the
\* unguarded one is emitted unguarded, and one required in the other order
\* inside the guard
C8_Witness ==
    /\ pc = "done"
    /\ "VkS" \in DOMAIN struct_factory
    /\ DOMAIN ext_factory = {"VK_EXT_x", "VK_KHR_y"}
    /\ \E i \in 1..Len(files[1].text.structs) :
           /\ files[1].text.structs[i].name = "VkS"
           /\ files[1].text.structs[i].guard = "G_XLIB"

\* some member named sType carries values
SomeDiscriminant(members) ==
    \E i \in 1..Len(members) :
        /\ "name" \in DOMAIN members[i] /\ members[i].name = "sType"
        /\ "values" \in DOMAIN members[i]

\* the first member named sType carries values
FirstDiscriminant(members) ==
    \E i \in 1..Len(members) :
        /\ "name" \in DOMAIN members[i] /\ members[i].name = "sType"
        /\ "values" \in DOMAIN members[i]
        /\ \A j \in 1..(i - 1) :
               ~("name" \in DOMAIN members[j] /\ members[j].name = "sType")

\* the struct table grows by struct declarations alone, never shrinks, and
\* every file written has one case per struct of the table
StructTableFrame ==
    /\ DOMAIN struct_factory \subseteq DOMAIN struct_factory'
    /\ last'.kind # "struct" => DOMAIN struct_factory' = DOMAIN struct_factory
    /\ files'[1].state = "complete" =>
           {files'[1].text.structs[i].name : i \in 1..Len(files'[1].text.structs)}
               = DOMAIN struct_factory'

(* C9 as stated: a struct declaration is entered in the struct table, and  *)
(* so gets a case in the size table, if and only if its member list        *)
(* contains a member named sType that carries values.                      *)
C9_EnteredIffSomeDiscriminant ==
    [][/\ StructTableFrame
       /\ last'.kind = "struct" =>
              (last'.name \in DOMAIN struct_factory'
                   <=> (\/ last'.name \in DOMAIN struct_factory
                        \/ SomeDiscriminant(last'.members)))]_vars

(* C9 as amended: a struct declaration is entered in the struct table if   *)
(* and only if the first member named sType of its member list carries     *)
(* values.                                                                 *)
C9_EnteredIffFirstDiscriminant ==
    [][/\ StructTableFrame
       /\ last'.kind = "struct" =>
              (last'.name \in DOMAIN struct_factory'
                   <=> (\/ last'.name \in DOMAIN struct_factory
                        \/ FirstDiscriminant(last'.members)))]_vars

\* one struct is in the table, and the declaration just parsed, whose first
\* sType member has no values, entered nothing
C9_Witness ==
    /\ last.kind = "struct"
    /\ last.name \notin DOMAIN struct_factory
    /\ struct_factory # EmptyMap
    /\ SomeDiscriminant(last.members)

----------------------------------------------------------------------------
(* Enumerations, bitmasks and handles: runs of main over documents that    *)
(* declare VkObjectType, three bitmasks, a feature and an extension that   *)
(* extend them, and handles.                                               *)

ObjectTypeElems ==
    {[name |-> "OT", value |-> 1],
     [name |-> "OT", alias |-> "BASE"],
     [name |-> "BASE", value |-> 2]}
MainBitmasks == {<<"VkQFlagBits", 32>>, <<"VkQFlagBits2", 64>>}
MainBitElems ==
    {[name |-> "A", bitpos |-> 0], [name |-> "A", bitpos |-> 1],
     [name |-> "BB", bitpos |-> 1]}
MainFeatureElems ==
    {[extends |-> "VkQFlagBits", name |-> "CC", bitpos |-> 2],
     [extends |-> "VkUnknown", name |-> "CC", bitpos |-> 2]}
MainExtElems ==
    {[extends |-> "VkQFlagBits", name |-> "DD", bitpos |-> 3],
     [extends |-> "VkObjectType", name |-> "OT", offset |-> 0]}
MainHandles ==
    {[name |-> "VkDevice", objtypeenum |-> "OT"],
     [name |-> "VkQueue", objtypeenum |-> "BASE"]}

MainBudget == nelems < MaxMainElems

NextMain ==
    \/ MainBudget /\ ParseEnumType("VkObjectType")
    \/ MainBudget /\ \E elem \in ObjectTypeElems : ParseEnumValue("VkObjectType", elem)
    \/ MainBudget /\ ParseBitmaskType("VkBadFlags", 32)
    \/ MainBudget /\ \E b \in MainBitmasks, elem \in MainBitElems :
                        ParseBitmaskValue(b[1], b[2], elem)
    \/ MainBudget /\ \E elem \in MainFeatureElems : ParseFeatureEnum(elem)
    \/ MainBudget /\ ParseExtension([name |-> "VK_EXT_x", number |-> 2])
    \/ MainBudget /\ \E elem \in MainExtElems : ParseExtEnum(elem)
    \/ MainBudget /\ \E elem \in MainHandles : ParseHandle(elem)
    \/ EndLoop
    \/ NextDocument
    \/ EndOfDocuments
    \/ RenderFile

SpecMain == InitMain /\ [][NextMain]_vars

(* C3: the all-bits value written for a bitmask is the OR of exactly the   *)
(* distinct values its declared names resolve to when the resolution pass  *)
(* over all documents has ended.                                           *)
C3_AllBitsIsOrOfResolvedValues ==
    files[3].state = "complete" =>
        \A i \in 1..Len(files[3].text.all_bits) :
            files[3].text.all_bits[i].value
                = OrAll(DictValues(bitmask_factory[files[3].text.all_bits[i].of]
                                       .name_to_value), 0)

(* C6: whenever the transform fails none of the three output files has     *)
(* been created, truncated or partly written, and whenever it succeeds all *)
(* three are written completely.                                           *)
C6_AllOrNothingOutput ==
    /\ pc = "failed" => \A i \in 1..3 : files[i].state = "absent"
    /\ pc = "done" => \A i \in 1..3 : files[i].state = "complete"

(* C10: a handle whose discriminant constant has no value in the plain     *)
(* enumeration VkObjectType ends the load at that handle: nothing is       *)
(* recorded for it, no step follows the failure, and no output file has    *)
(* been or will be touched.                                                *)
C10_UnresolvedHandleIsFatal ==
    [][/\ (last'.kind = "handle" /\ ~Resolvable(enum_factory, last'.elem)) =>
              /\ pc' = "failed"
              /\ obj_type_factory' = obj_type_factory
              /\ \A i \in 1..3 : files'[i].state = "absent"
       /\ pc = "failed" => UNCHANGED vars]_vars

\* the load died on a handle whose discriminant is an alias still waiting
\* for its base
C10_Witness ==
    /\ pc = "failed"
    /\ last.kind = "handle"
    /\ "VkObjectType" \in DOMAIN enum_factory
    /\ \E base \in DOMAIN enum_factory["VkObjectType"].name_to_alias_list :
           /\ base \notin DictKeys(enum_factory["VkObjectType"].name_to_value)
           /\ \E i \in 1..Len(enum_factory["VkObjectType"].name_to_alias_list[base]) :
                  enum_factory["VkObjectType"].name_to_alias_list[base][i]
                      = last.elem.objtypeenum

\* the last step parsed an enum[@extends] element, of a feature or of an
\* extension, whose target was in neither registry
UnknownExtended(enums, bitmasks, elem) ==
    /\ elem.extends \notin DOMAIN enums
    /\ elem.extends \notin DOMAIN bitmasks

(* C11: an enum[@extends] element of a feature or of an extension whose    *)
(* target is neither a plain enumeration nor a bitmask changes no          *)
(* enumeration (maps, pending aliases, guard), creates none, and leaves    *)
(* parse_xml in the loop it was in, ready for the next element.            *)
C11_UnknownExtendsSkipped ==
    [][(last'.kind = "extends"
            /\ UnknownExtended(enum_factory, bitmask_factory, last'.elem)) =>
           /\ enum_factory' = enum_factory
           /\ bitmask_factory' = bitmask_factory
           /\ pc' = pc
           /\ pc \in {"features", "ext_enums"}]_vars

\* an extension's element with an unknown target was skipped while an
\* enumeration with a value and a pending alias was registered
C11_Witness ==
    /\ last.kind = "extends"
    /\ last.extension # NoneV
    /\ UnknownExtended(enum_factory, bitmask_factory, last.elem)
    /\ pc = "ext_enums"
    /\ \E n \in DOMAIN enum_factory :
           /\ enum_factory[n].name_to_value # <<>>
           /\ DOMAIN enum_factory[n].name_to_alias_list # {}

\* the value a literal element (value or bitpos) passes to add_value
LiteralValue(elem) ==
    IF "value" \in DOMAIN elem THEN elem.value ELSE 2 ^ elem.bitpos

\* elem declares by value or bit position a pair that e already holds
Redeclares(e, elem) ==
    /\ DOMAIN elem \cap {"value", "bitpos"} # {}
    /\ elem.name \in DictKeys(e.name_to_value)
    /\ DictGet(e.name_to_value, elem.name) = LiteralValue(elem)

(* C12: add_value(name, value) for a pair that name_to_value already holds *)
(* with that value leaves name_to_value, values and the pending aliases as *)
(* they were, and raises nothing.                                          *)
C12_RedeclarationIsNoOp ==
    [][(last'.kind = "enum" /\ Redeclares(TheVkEnum, last'.elem)) =>
           /\ TheVkEnum'.name_to_value = TheVkEnum.name_to_value
           /\ TheVkEnum'.values = TheVkEnum.values
           /\ TheVkEnum'.name_to_alias_list = TheVkEnum.name_to_alias_list
           /\ pc' = "load"]_vars

\* three declarations, the last one by value: one alias is left pending
\* and one name has one value, so the last declaration repeated a pair
C12_Witness ==
    /\ nelems = 3
    /\ pc = "load"
    /\ last.kind = "enum"
    /\ "value" \in DOMAIN last.elem
    /\ Len(TheVkEnum.name_to_value) = 1
    /\ Cardinality(DOMAIN TheVkEnum.values) = 1
    /\ DictGet(TheVkEnum.name_to_value, last.elem.name) = last.elem.value
    /\ Cardinality(DOMAIN TheVkEnum.name_to_alias_list) = 1
    /\ \A b \in DOMAIN TheVkEnum.name_to_alias_list :
           Len(TheVkEnum.name_to_alias_list[b]) = 1

----------------------------------------------------------------------------
(* One document loaded twice in succession: main called with the same file *)
(* named twice.  The document is a sequence of elements in the order of    *)
(* parse_xml's loops, each with the loop that finds it.                    *)

DocEnumPool ==
    {[name |-> "A", value |-> 1], [name |-> "A", value |-> 2],
     [name |-> "BB", alias |-> "A"], [name |-> "BB", value |-> 1]}

\* the enum children of the enums element VkE
DocEnumPart(f) ==
    [i \in 1..Len(f) |-> [loop |-> "enums", of |-> TheEnum, elem |-> f[i]]]
DocEnumParts ==
    {DocEnumPart(f) : f \in UNION {[1..n -> DocEnumPool] : n \in 0..MaxDocEnums}}

\* what follows them: VkObjectType, a bitmask, a feature, a struct, a
\* platform, an extension with or without an enum of its own, a handle
DocTail(extending) ==
    <<[loop |-> "enums", of |-> "VkObjectType", elem |-> [name |-> "OT", value |-> 1]],
      [loop |-> "bitmasks", of |-> "VkQFlagBits", bitwidth |-> 32,
       elem |-> [name |-> "A", bitpos |-> 0]],
      [loop |-> "features", elem |-> [extends |-> TheEnum, name |-> "CC", value |-> 2]],
      [loop |-> "structs", name |-> "VkS",
       members |-> <<[name |-> "sType", values |-> "ST"]>>],
      [loop |-> "platforms", name |-> "xlib", protect |-> "G_XLIB"],
      [loop |-> "extensions",
       elem |-> [name |-> "VK_EXT_x", number |-> 2, platform |-> "xlib"]]>>
    \o (IF extending
        THEN <<[loop |-> "ext_enums",
                elem |-> [extends |-> TheEnum, name |-> "A", offset |-> 3]]>>
        ELSE <<>>)
    \o <<[loop |-> "ext_types", name |-> TheEnum],
         [loop |-> "ext_types", name |-> "VkS"],
         [loop |-> "handles", elem |-> [name |-> "VkDevice", objtypeenum |-> "OT"]]>>

Documents ==
    {e \o t : e \in DocEnumParts, t \in {<<>>, DocTail(FALSE), DocTail(TRUE)}}
        \ {<<>>}

InitTwice ==
    /\ enum_factory = EmptyMap
    /\ pc = "enums"
    /\ last = NoElem
    /\ nelems = 0
    /\ input \in Documents
    /\ ident = <<>> /\ max_enum_name = NoneV
    /\ MainIdle

\* the position in the document of the load that is running
Pos == IF once = NoneV THEN nelems ELSE nelems - Len(input)
HasCur == Pos < Len(input)
Cur == input[Pos + 1]

NextTwice ==
    \/ HasCur /\ Cur.loop = "enums" /\ ParseEnumValue(Cur.of, Cur.elem)
    \/ HasCur /\ Cur.loop = "bitmasks" /\ ParseBitmaskValue(Cur.of, Cur.bitwidth, Cur.elem)
    \/ HasCur /\ Cur.loop = "features" /\ ParseFeatureEnum(Cur.elem)
    \/ HasCur /\ Cur.loop = "structs" /\ ParseStruct(Cur.name, Cur.members)
    \/ HasCur /\ Cur.loop = "platforms" /\ ParsePlatform(Cur.name, Cur.protect)
    \/ HasCur /\ Cur.loop = "extensions" /\ ParseExtension(Cur.elem)
    \/ HasCur /\ Cur.loop = "ext_enums" /\ ParseExtEnum(Cur.elem)
    \/ HasCur /\ Cur.loop = "ext_types" /\ ParseExtType(Cur.name)
    \/ HasCur /\ Cur.loop = "handles" /\ ParseHandle(Cur.elem)
    \/ ~(HasCur /\ Cur.loop = pc) /\ EndLoop
    \/ ~HasCur /\ once = NoneV /\ NextDocument
    \/ ~HasCur /\ once # NoneV /\ EndOfDocuments
    \/ RenderFile

SpecTwice == InitTwice /\ [][NextTwice]_vars

(* C13: loading the same document twice in succession yields the resolved  *)
(* model that loading it once yields: every enumeration's name_to_value,   *)
(* values and guard, every extension's number and guard, every struct's    *)
(* discriminant and owning extension, and the object-type table.           *)
C13_SecondLoadChangesNothing ==
    (pc = "render" /\ once # NoneV) => ResolvedModel = The(once)

(* C14: the string-conversion function written for a plain enumeration has *)
(* exactly one case per distinct value its names resolve to, returning the *)
(* value's canonical name, no value in two cases, and one more case for    *)
(* the sentinel name.                                                      *)
C14_OneCasePerResolvedValue ==
    files[1].state = "complete" =>
        \A i \in 1..Len(files[1].text.enums) :
            LET fn == files[1].text.enums[i]
                e == enum_factory[fn.name]
            IN /\ {fn.cases[j][1] : j \in 1..Len(fn.cases)}
                      = DictValues(e.name_to_value)
               /\ \A j, k \in 1..Len(fn.cases) :
                      fn.cases[j][1] = fn.cases[k][1] => j = k
               /\ \A j \in 1..Len(fn.cases) :
                      fn.cases[j][2] = e.values[fn.cases[j][1]]
               /\ fn.max_enum_name = compute_max_enum_name(Chars(fn.name))

\* the names are in ascending order of Python's string comparison
Ascending(names) ==
    \A i, j \in 1..Len(names) : i < j => StrLess(Chars(names[i]), Chars(names[j]))

(* C15: every collection written to the files is in ascending order of     *)
(* name, whatever order the input declared it in: the enumerations, the    *)
(* structs, the extensions, the bitmasks and, for each 64-bit bitmask, its *)
(* redefined constants.                                                    *)
C15_EmittedInNameOrder ==
    /\ files[1].state = "complete" =>
           /\ Ascending([i \in 1..Len(files[1].text.enums) |->
                            files[1].text.enums[i].name])
           /\ Ascending([i \in 1..Len(files[1].text.structs) |->
                            files[1].text.structs[i].name])
    /\ files[2].state = "complete" =>
           Ascending([i \in 1..Len(files[2].text.enums) |-> files[2].text.enums[i].name])
    /\ files[3].state = "complete" =>
           /\ Ascending([i \in 1..Len(files[3].text.extensions) |->
                            files[3].text.extensions[i].name])
           /\ Ascending([i \in 1..Len(files[3].text.all_bits) |->
                            files[3].text.all_bits[i].of])
           /\ Ascending([i \in 1..Len(files[3].text.redefines) |->
                            files[3].text.redefines[i].name])
           /\ \A i \in 1..Len(files[3].text.redefines) :
                  Ascending([j \in 1..Len(files[3].text.redefines[i].defines) |->
                                files[3].text.redefines[i].defines[j][1]])

\* the names waiting in the pending lists of e
PendingNames(e) ==
    UNION {{e.name_to_alias_list[b][i] : i \in 1..Len(e.name_to_alias_list[b])} :
              b \in DOMAIN e.name_to_alias_list}

\* n has a value in e, or waits in e for a base that has none
Settled(e, n) ==
    \/ n \in DictKeys(e.name_to_value)
    \/ \E b \in DOMAIN e.name_to_alias_list :
           /\ b \notin DictKeys(e.name_to_value)
           /\ \E i \in 1..Len(e.name_to_alias_list[b]) : e.name_to_alias_list[b][i] = n

(* C16: after every add_value call that returns, no key of the pending     *)
(* map has a value, and every name ever declared as an alias has a value   *)
(* or waits under a base without one: the call leaves the name it declares *)
(* by alias so, keeps every waiting name so, and takes no value away.      *)
C16_PendingOnlyUnderUnresolved ==
    [][pc' = "load" =>
           /\ \A b \in DOMAIN TheVkEnum'.name_to_alias_list :
                  b \notin DictKeys(TheVkEnum'.name_to_value)
           /\ (last'.kind = "enum" /\ "alias" \in DOMAIN last'.elem
                   /\ DOMAIN last'.elem \cap {"value", "bitpos"} = {})
                  => Settled(TheVkEnum', last'.elem.name)
           /\ \A n \in PendingNames(TheVkEnum) : Settled(TheVkEnum', n)
           /\ DictKeys(TheVkEnum.name_to_value)
                  \subseteq DictKeys(TheVkEnum'.name_to_value)]_vars

\* three declarations, the last by offset: all three names have the
\* offset's value, which the other two can only have as flushed aliases
C16_Witness ==
    /\ pc = "load"
    /\ nelems = 3
    /\ IsOffsetDecl(last)
    /\ Len(TheVkEnum.name_to_value) = 3
    /\ Cardinality(DictValues(TheVkEnum.name_to_value)) = 1
    /\ TheVkEnum.name_to_alias_list = EmptyMap

(* C17: every add_value call ends after finitely many recursive calls of   *)
(* its flush loop, whatever the pending map holds, alias cycles included:  *)
(* no call re-enters the flush of a name whose flush is still running.     *)
C17_AddValueTerminates ==
    [][last'.kind = "enum" =>
           add_value_from_xml(TheVkEnum, last'.elem, last'.extension).err
               # "RecursionError"]_vars

----------------------------------------------------------------------------
(* The factories under repeated registration: runs of main over documents  *)
(* that declare one bitmask, one struct and one extension several times,   *)
(* with different bit widths, discriminants, numbers and platforms.        *)

FactoryBitwidths == {32, 64}
FactoryMembers ==
    {<<[name |-> "sType", values |-> "ST"]>>, <<[name |-> "sType", values |-> "ST2"]>>}
FactoryExtensions ==
    {[name |-> "VK_EXT_x", number |-> 1, platform |-> "xlib"],
     [name |-> "VK_EXT_x", number |-> 3]}
FactoryFeatureElems ==
    {[extends |-> "VkQFlagBits", name |-> "CC", bitpos |-> 2],
     [extends |-> "VkUnknown", name |-> "CC", bitpos |-> 2]}
FactoryTypes == {"VkS", "VkUnknown"}

FactoryBudget == nelems < MaxFactoryElems

NextFactory ==
    \/ FactoryBudget /\ \E bitwidth \in FactoryBitwidths :
                           ParseBitmaskType("VkQFlagBits", bitwidth)
    \/ FactoryBudget /\ \E elem \in FactoryFeatureElems : ParseFeatureEnum(elem)
    \/ FactoryBudget /\ \E members \in FactoryMembers : ParseStruct("VkS", members)
    \/ FactoryBudget /\ ParsePlatform("xlib", "G_XLIB")
    \/ FactoryBudget /\ \E elem \in FactoryExtensions : ParseExtension(elem)
    \/ FactoryBudget /\ \E name \in FactoryTypes : ParseExtType(name)
    \/ EndLoop
    \/ NextDocument
    \/ EndOfDocuments
    \/ RenderFile

SpecFactory == InitMain /\ [][NextFactory]_vars

\* every object of the registry is under its own name
KeyedByName(registry) == \A n \in DOMAIN registry : registry[n].name = n

(* C18: a factory called with a registered name returns the object that is *)
(* there and ignores the new arguments: no step changes the number or the  *)
(* guard of a registered extension, the discriminant of a registered       *)
(* struct or the bit width of a registered enumeration or bitmask, or      *)
(* removes one; each registry holds one object per name, under that name;  *)
(* and the steps that only call get() (an enum[@extends] element, a        *)
(* require/type element) register nothing.                                 *)
C18_FirstRegistrationWins ==
    [][/\ \A n \in DOMAIN ext_factory :
              n \in DOMAIN ext_factory' /\ ext_factory'[n] = ext_factory[n]
       /\ \A n \in DOMAIN struct_factory :
              /\ n \in DOMAIN struct_factory'
              /\ struct_factory'[n].stype = struct_factory[n].stype
       /\ \A n \in DOMAIN bitmask_factory :
              /\ n \in DOMAIN bitmask_factory'
              /\ bitmask_factory'[n].bitwidth = bitmask_factory[n].bitwidth
       /\ \A n \in DOMAIN enum_factory :
              /\ n \in DOMAIN enum_factory'
              /\ enum_factory'[n].bitwidth = enum_factory[n].bitwidth
       /\ KeyedByName(ext_factory') /\ KeyedByName(struct_factory')
       /\ KeyedByName(bitmask_factory') /\ KeyedByName(enum_factory')
       /\ last'.kind \in {"extends", "type"} =>
              /\ DOMAIN enum_factory' = DOMAIN enum_factory
              /\ DOMAIN bitmask_factory' = DOMAIN bitmask_factory
              /\ DOMAIN struct_factory' = DOMAIN struct_factory
              /\ DOMAIN ext_factory' = DOMAIN ext_factory]_vars

\* the extension element just parsed names a registered extension with
\* another number and no platform, and the registered number and guard stay
C18_Witness ==
    /\ last.kind = "extension"
    /\ pc = "ext_enums"
    /\ last.elem.number # ext_factory[last.elem.name].number
    /\ "platform" \notin DOMAIN last.elem
    /\ ext_factory[last.elem.name].define = "G_XLIB"
    /\ \E n \in DOMAIN struct_factory : struct_factory[n].stype = "ST2"

====
